---- MODULE Spec2Model ----
(***************************************************************************)
(* Session manager (strava_mcp/auth.py, duplicated in server.py) and the   *)
(* limit handling of the activity query layer of strava-mcp.               *)
(*                                                                         *)
(* get_client() is modelled statement by statement, one action per         *)
(* statement that reads or writes the module globals, for a set of callers *)
(* sharing the globals.  Spec runs one caller (the single-threaded design);*)
(* SpecConc runs two callers whose statements interleave.                  *)
(***************************************************************************)
EXTENDS Integers, Sequences, FiniteSets, TLC

\* ---------------------------------------------------------------- constants
\* auth.py:20  "time.time() > _token_expires_at - 300"
REFRESH_BUFFER == 300

\* tests/test_limits.py:3 imports MAX_LIMIT from the tool-surface module; the
\* tests need MAX_LIMIT >= 10 (normal_limit = 10 is passed on unchanged).
MAX_LIMIT == 10

\* ------------------------------------------------------------------- bounds
StartTime == 1000
MaxTicks == 2
MaxExchanges == 2

\* clock steps between statements, token lifetimes the server may report
TickSteps == {1, REFRESH_BUFFER}
Lifetimes == {REFRESH_BUFFER, 2 * REFRESH_BUFFER}

AllCallers == {1, 2}
Secrets == {"s1", "s2"}
Limits == {0, MAX_LIMIT, MAX_LIMIT + 1}

\* ------------------------------------------------------------------- values
\* Client() starts with access_token = refresh_token = None.  An access token
\* is written as its serial number together with the expiry the server
\* reported when it issued it (NoExpiry when the response carried none) and
\* whether the response that carried it was complete; a refresh token is
\* written as its serial number.
NoExpiry == -1
None == [id |-> 0, exp |-> NoExpiry, whole |-> FALSE]
NoRefresh == 0
\* config.py:15  the refresh token read from the environment at start; the
\* server's refresh tokens are numbered from 1
REFRESH_TOKEN == -2
ResponseKeys == {"access_token", "refresh_token", "expires_at"}
Token(k, keys, expires_at) ==
    [id |-> k, exp |-> IF "expires_at" \in keys THEN expires_at ELSE NoExpiry,
     whole |-> keys = ResponseKeys]
\* the key sets a response dict may carry: complete, or lacking one key
KeySets == {ResponseKeys} \cup {ResponseKeys \ {k} : k \in ResponseKeys}
NoResp == [keys |-> {}, access_token |-> None, refresh_token |-> NoRefresh,
           expires_at |-> 0]
NoError == <<"", "">>
NoSession == <<None, NoRefresh, 0>>
Compare(a, b) == IF a < b THEN "lt" ELSE IF a = b THEN "eq" ELSE "gt"
GenericText == "Failed to authenticate with Strava. Check server logs."
\* no query-layer function has been called
NoQuery == [op |-> "none"]
NoCall == [tool |-> "none", limit |-> 0, core |-> "none", core_limit |-> 0,
           fetched |-> <<>>, outcome |-> "none"]

VARIABLES
    now,                  \* time.time()
    ticks,                \* clock steps taken (bounded by MaxTicks)
    CLIENT_SECRET,        \* config.py:14, fixed at start
    client_access_token,  \* _client.access_token
    client_refresh_token, \* _client.refresh_token
    token_expires_at,     \* _token_expires_at
    nexch,                \* responses the token endpoint has produced
    partial,              \* some response so far lacked a key
    callers,              \* the callers that run get_client()
    pc,                   \* per caller: position in get_client()
    phase,                \* per caller: the clock at line 20 against the
                          \* threshold expires_at - 300: "lt" | "eq" | "gt"
                          \* ("none" before its first call)
    pre,                  \* per caller: the stored triple when the call began
    attempts,             \* per caller: exchanges attempted in this call
    resp,                 \* per caller: response of refresh_access_token
    result,               \* per caller: "none" | "ok" | "error"
    err,                  \* per caller: payload of the raised RuntimeError
    logged,               \* per caller: the "Auth Error" line it wrote
    obs,                  \* per caller: triple of the session it was returned
    last,                 \* the last tool body that ran
    presented,            \* per caller: refresh token its exchange request sent
    qry                   \* one call of a query-layer function: inputs, output

sess == <<client_access_token, client_refresh_token, token_expires_at>>
env == <<now, ticks, CLIENT_SECRET, callers>>
srv == <<nexch, partial>>
local == <<phase, pre, attempts, resp, result, err, logged, obs, presented>>
vars == <<now, ticks, CLIENT_SECRET, client_access_token, client_refresh_token,
          token_expires_at, nexch, partial, callers, pc, phase, pre, attempts,
          resp, result, err, logged, obs, last, presented, qry>>

\* --------------------------------------------------------------- get_client
\* auth.py:20  the refresh condition
ShouldRefreshNoCache(t, expires_at) == t > 0 - REFRESH_BUFFER
ShouldRefreshNoBuffer(t, expires_at) == t > expires_at
ShouldRefreshUnlessUnset(t, expires_at) ==
    expires_at # 0 /\ t > expires_at - REFRESH_BUFFER
ShouldRefresh(t, expires_at) == t > expires_at - REFRESH_BUFFER

\* auth.py:39  the message of the RuntimeError raised to the caller
ErrorPayloadLeaky(e) == e
ErrorPayload(e) == <<GenericText, "">>

\* what refresh_access_token may raise: the exception text may quote the
\* request, which carries the client secret
ExchangeFaults(secret) == {<<"network", "">>, <<"unauthorized", secret>>}
KeyError(k) == <<"KeyError", k>>

\* auth.py:29  refresh_token=REFRESH_TOKEN: the token every exchange presents
PresentedRefreshToken == REFRESH_TOKEN

\* auth.py:35-39  except Exception as e: log e, raise the generic RuntimeError
Fail(t, e) ==
    /\ logged' = [logged EXCEPT ![t] = e]
    /\ err' = [err EXCEPT ![t] = ErrorPayload(e)]
    /\ result' = [result EXCEPT ![t] = "error"]
    /\ pc' = [pc EXCEPT ![t] = "idle"]

\* auth.py:13-20  entry of get_client(): read the clock and the stored expiry
Call(t) ==
    /\ t \in callers
    /\ pc[t] = "idle"
    /\ pc' = [pc EXCEPT ![t] = IF ShouldRefresh(now, token_expires_at)
                               THEN "refresh" ELSE "return"]
    /\ phase' = [phase EXCEPT ![t] =
                   Compare(now, token_expires_at - REFRESH_BUFFER)]
    /\ pre' = [pre EXCEPT ![t] = sess]
    /\ attempts' = [attempts EXCEPT ![t] = 0]
    /\ resp' = [resp EXCEPT ![t] = NoResp]
    /\ result' = [result EXCEPT ![t] = "none"]
    /\ err' = [err EXCEPT ![t] = NoError]
    /\ logged' = [logged EXCEPT ![t] = NoError]
    /\ obs' = [obs EXCEPT ![t] = NoSession]
    /\ last' = NoCall
    /\ presented' = [presented EXCEPT ![t] = NoRefresh]
    /\ UNCHANGED <<env, sess, srv, qry>>

\* auth.py:22-30  the request of _client.refresh_access_token(...) leaves
SendExchange(t) ==
    /\ pc[t] = "refresh"
    /\ pc' = [pc EXCEPT ![t] = "exchanging"]
    /\ attempts' = [attempts EXCEPT ![t] = @ + 1]
    /\ presented' = [presented EXCEPT ![t] = PresentedRefreshToken]
    /\ UNCHANGED <<env, sess, srv, phase, pre, resp, result, err, logged, obs,
                   last, qry>>

\* auth.py:24  refresh_access_token raises
RecvFault(t) ==
    /\ pc[t] = "exchanging"
    /\ \E e \in ExchangeFaults(CLIENT_SECRET) : Fail(t, e)
    /\ UNCHANGED <<env, sess, srv, phase, pre, attempts, resp, obs, last,
                   presented, qry>>

\* auth.py:24  refresh_access_token returns a response dict
RecvResponse(t) ==
    /\ pc[t] = "exchanging"
    /\ nexch < MaxExchanges
    /\ \E life \in Lifetimes, keys \in KeySets :
        /\ resp' = [resp EXCEPT ![t] =
                      [keys |-> keys,
                       access_token |-> Token(nexch + 1, keys, now + life),
                       refresh_token |-> nexch + 1,
                       expires_at |-> now + life]]
        /\ partial' = (partial \/ keys # ResponseKeys)
    /\ nexch' = nexch + 1
    /\ pc' = [pc EXCEPT ![t] = "set_access"]
    /\ UNCHANGED <<env, sess, phase, pre, attempts, result, err, logged, obs,
                   last, presented, qry>>

\* auth.py:31  _client.access_token = response["access_token"]
SetAccess(t) ==
    /\ pc[t] = "set_access"
    /\ IF "access_token" \in resp[t].keys
       THEN /\ client_access_token' = resp[t].access_token
            /\ pc' = [pc EXCEPT ![t] = "set_refresh"]
            /\ UNCHANGED <<logged, err, result>>
       ELSE /\ Fail(t, KeyError("access_token"))
            /\ UNCHANGED client_access_token
    /\ UNCHANGED <<env, client_refresh_token, token_expires_at, srv, phase,
                   pre, attempts, resp, obs, last, presented, qry>>

\* auth.py:32  _client.refresh_token = response["refresh_token"]
SetRefresh(t) ==
    /\ pc[t] = "set_refresh"
    /\ IF "refresh_token" \in resp[t].keys
       THEN /\ client_refresh_token' = resp[t].refresh_token
            /\ pc' = [pc EXCEPT ![t] = "set_expires"]
            /\ UNCHANGED <<logged, err, result>>
       ELSE /\ Fail(t, KeyError("refresh_token"))
            /\ UNCHANGED client_refresh_token
    /\ UNCHANGED <<env, client_access_token, token_expires_at, srv, phase,
                   pre, attempts, resp, obs, last, presented, qry>>

\* auth.py:33-34  _token_expires_at = response["expires_at"]
SetExpiresSkipped(t) ==
    /\ pc[t] = "set_expires"
    /\ IF "expires_at" \in resp[t].keys
       THEN /\ pc' = [pc EXCEPT ![t] = "return"]
            /\ UNCHANGED <<logged, err, result>>
       ELSE Fail(t, KeyError("expires_at"))
    /\ UNCHANGED <<env, sess, srv, phase, pre, attempts, resp, obs, last,
                   presented, qry>>

SetExpires(t) ==
    /\ pc[t] = "set_expires"
    /\ IF "expires_at" \in resp[t].keys
       THEN /\ token_expires_at' = resp[t].expires_at
            /\ pc' = [pc EXCEPT ![t] = "return"]
            /\ UNCHANGED <<logged, err, result>>
       ELSE /\ Fail(t, KeyError("expires_at"))
            /\ UNCHANGED token_expires_at
    /\ UNCHANGED <<env, client_access_token, client_refresh_token, srv,
                   phase, pre, attempts, resp, obs, last, presented, qry>>

\* auth.py:41  return _client
Return(t) ==
    /\ pc[t] = "return"
    /\ pc' = [pc EXCEPT ![t] = "idle"]
    /\ result' = [result EXCEPT ![t] = "ok"]
    /\ obs' = [obs EXCEPT ![t] = sess]
    /\ UNCHANGED <<env, sess, srv, phase, pre, attempts, resp, err, logged,
                   last, presented, qry>>

\* the clock advances between statements
Tick ==
    /\ ticks < MaxTicks
    /\ \E d \in TickSteps : now' = now + d
    /\ ticks' = ticks + 1
    /\ UNCHANGED <<CLIENT_SECRET, callers, sess, srv, pc, local, last, qry>>

\* -------------------------------------------------------------- query layer
\* services/activities.py:10-33  list_activities(client, limit): one
\* client.get_activities(limit=limit), every activity normalized
list_activities(limit) ==
    [core |-> "list_activities", core_limit |-> limit,
     fetched |-> <<limit>>, outcome |-> "ok"]

\* services/activities.py:36-109  search_activities(client, ..., limit): one
\* client.get_activities(before=, after=, limit=limit)
search_activities(limit) ==
    [core |-> "search_activities", core_limit |-> limit,
     fetched |-> <<limit>>, outcome |-> "ok"]

\* the tool surface tested by tests/test_limits.py: limit clamped to MAX_LIMIT
ClampLimitNone(limit) == limit
ClampLimit(limit) == IF limit > MAX_LIMIT THEN MAX_LIMIT ELSE limit

\* the record of one tool body: the limit it was given, the core operation it
\* called and with which limit, the fetches that operation issued
ToolRecord(tool, limit, call) ==
    [tool |-> tool, limit |-> limit, core |-> call.core,
     core_limit |-> call.core_limit, fetched |-> call.fetched,
     outcome |-> call.outcome]

\* a tool body runs after its get_client() returned the session
GotClient(t) == t \in callers /\ pc[t] = "idle" /\ result[t] = "ok"

\* server.py:180-190  the self-contained draft tool: limit forwarded as given
\* to its private copy of the core (server.py:193-215)
DraftListActivities(t) ==
    /\ GotClient(t)
    /\ \E limit \in Limits :
        last' = ToolRecord("draft_list_activities", limit,
                           list_activities(limit))
    /\ UNCHANGED <<env, sess, srv, pc, local, qry>>

\* list_activities_tool (tests/test_limits.py:6-38)
ListActivitiesTool(t) ==
    /\ GotClient(t)
    /\ \E limit \in Limits :
        last' = ToolRecord("list_activities_tool", limit,
                           list_activities(ClampLimit(limit)))
    /\ UNCHANGED <<env, sess, srv, pc, local, qry>>

\* search_activities_tool (tests/test_limits.py:41-56)
SearchActivitiesTool(t) ==
    /\ GotClient(t)
    /\ \E limit \in Limits :
        last' = ToolRecord("search_activities_tool", limit,
                           search_activities(ClampLimit(limit)))
    /\ UNCHANGED <<env, sess, srv, pc, local, qry>>

\* ------------------------------------------------------------ specification
InitWith(cs, t0, secrets) ==
    /\ now = StartTime
    /\ ticks = t0
    /\ CLIENT_SECRET \in secrets
    /\ client_access_token = None
    /\ client_refresh_token = NoRefresh
    /\ token_expires_at = 0
    /\ nexch = 0
    /\ partial = FALSE
    /\ callers = cs
    /\ pc = [t \in AllCallers |-> "idle"]
    /\ phase = [t \in AllCallers |-> "none"]
    /\ pre = [t \in AllCallers |-> NoSession]
    /\ attempts = [t \in AllCallers |-> 0]
    /\ resp = [t \in AllCallers |-> NoResp]
    /\ result = [t \in AllCallers |-> "none"]
    /\ err = [t \in AllCallers |-> NoError]
    /\ logged = [t \in AllCallers |-> NoError]
    /\ obs = [t \in AllCallers |-> NoSession]
    /\ last = NoCall
    /\ presented = [t \in AllCallers |-> NoRefresh]

Init == InitWith({1}, 0, Secrets) /\ qry = NoQuery
InitConc == InitWith(AllCallers, MaxTicks - 1, {"s1"}) /\ qry = NoQuery

Next ==
    \/ \E t \in AllCallers : Call(t)
    \/ \E t \in AllCallers : SendExchange(t)
    \/ \E t \in AllCallers : RecvFault(t)
    \/ \E t \in AllCallers : RecvResponse(t)
    \/ \E t \in AllCallers : SetAccess(t)
    \/ \E t \in AllCallers : SetRefresh(t)
    \/ \E t \in AllCallers : SetExpires(t)
    \/ \E t \in AllCallers : Return(t)
    \/ Tick
    \/ \E t \in AllCallers : DraftListActivities(t)
    \/ \E t \in AllCallers : ListActivitiesTool(t)
    \/ \E t \in AllCallers : SearchActivitiesTool(t)

Spec == Init /\ [][Next]_vars
SpecConc == InitConc /\ [][Next]_vars

\* ------------------------------------------------------ query layer: values
\* An optional value: <<>> is None (the field is absent), <<v>> is the value v.
Absent == <<>>
Some(v) == <<v>>
IsSet(o) == o # <<>>

\* Text is a sequence of characters.  str.lower() and the "in" operator.
LowerChar(c) ==
    CASE c = "M" -> "m" [] c = "R" -> "r" [] c = "I" -> "i" [] c = "E" -> "e"
      [] OTHER -> c
Lower(s) == [i \in 1..Len(s) |-> LowerChar(s[i])]
Contains(sub, s) ==
    \E i \in 0..(Len(s) - Len(sub)) : SubSeq(s, i + 1, i + Len(sub)) = sub

\* datetime.timedelta keeps a duration as days and 0 <= seconds < 86400
SecondsPerDay == 86400
Duration(total) ==
    [days |-> total \div SecondsPerDay, seconds |-> total % SecondsPerDay]
TotalSeconds(td) == td.days * SecondsPerDay + td.seconds

\* the values "x or default" and "f(x) if x else default" of the services
OrZero(o) == IF IsSet(o) /\ o[1] # 0 THEN o[1] ELSE 0
OrEmpty(o) == IF IsSet(o) /\ o[1] # <<>> THEN o[1] ELSE <<>>
IsoFormat(d) == <<"iso", d>>
IsoOrNone(o) == IF IsSet(o) THEN Some(IsoFormat(o[1])) ELSE Absent

\* activities.py:17-19, 74-76, 116-121; streams.py:14-17
\*   getattr(x.moving_time, "seconds", 0) if x.moving_time else 0
DurationSecondsNoDefault(o) ==
    IF IsSet(o) /\ TotalSeconds(o[1]) # 0 THEN o[1].seconds ELSE -1
DurationSeconds(o) ==
    IF IsSet(o) /\ TotalSeconds(o[1]) # 0 THEN o[1].seconds ELSE 0

\* activities.py:21-31, 96-106 with models.py:41-53  ActivitySummary(...)
ActivitySummary(a) ==
    [id |-> OrZero(a.id),
     name |-> OrEmpty(a.name),
     type |-> a.type,
     start_date |-> IsoOrNone(a.start_date),
     distance |-> OrZero(a.distance),
     moving_time |-> DurationSeconds(a.moving_time),
     total_elevation_gain |-> OrZero(a.total_elevation_gain),
     average_speed |-> 0,
     max_speed |-> 0]

\* ----------------------------------------------- query layer: search
\* activities.py:53, 59  s.replace("Z", "+00:00") and
\* datetime.fromisoformat, on the date strings the model draws
ReplaceZ(s) ==
    IF s = "2023-06-01T00:00:00Z" THEN "2023-06-01T00:00:00+00:00" ELSE s
IsIsoFormat(s) == s \in {"2023-01-01", "2023-06-01T00:00:00+00:00"}
FromIsoFormat(s) == IF s = "2023-01-01" THEN 20230101 ELSE 20230601

\* activities.py:51-55, 57-61  parse one bound: unset or empty gives no bound,
\* a ValueError is caught, a warning written and the bound dropped
ParseBoundUncaught(side, o) ==
    IF IsSet(o) /\ o[1] # ""
    THEN IF IsIsoFormat(ReplaceZ(o[1]))
         THEN [date |-> Some(FromIsoFormat(ReplaceZ(o[1]))), diag |-> <<>>,
               raised |-> FALSE]
         ELSE [date |-> Absent, diag |-> <<>>, raised |-> TRUE]
    ELSE [date |-> Absent, diag |-> <<>>, raised |-> FALSE]
ParseBound(side, o) ==
    IF IsSet(o) /\ o[1] # ""
    THEN IF IsIsoFormat(ReplaceZ(o[1]))
         THEN [date |-> Some(FromIsoFormat(ReplaceZ(o[1]))), diag |-> <<>>,
               raised |-> FALSE]
         ELSE [date |-> Absent, diag |-> << <<"Warning", side, o[1]>> >>,
               raised |-> FALSE]
    ELSE [date |-> Absent, diag |-> <<>>, raised |-> FALSE]

\* activities.py:64-66  the client.get_activities call(s) of one search
SearchRequestsRefetch(before_date, after_date, limit) ==
    << [before |-> before_date, after |-> after_date, limit |-> limit],
       [before |-> before_date, after |-> after_date, limit |-> limit] >>
SearchRequests(before_date, after_date, limit) ==
    << [before |-> before_date, after |-> after_date, limit |-> limit] >>

\* activities.py:69-70  query.lower() if query else None
LowerOrNone(o) == IF IsSet(o) /\ o[1] # <<>> THEN Some(Lower(o[1])) ELSE Absent

\* activities.py:84-85  query filter
NamePassesCaseSensitive(query_lower, activity_name) ==
    ~(IsSet(query_lower) /\ ~Contains(query_lower[1], activity_name))
NamePasses(query_lower, activity_name) ==
    ~(IsSet(query_lower) /\ ~Contains(query_lower[1], Lower(activity_name)))

\* activities.py:87-88  type filter
TypePasses(type_lower, activity_type_str) ==
    ~(IsSet(type_lower) /\ ~Contains(type_lower[1], Lower(activity_type_str)))

\* activities.py:90-94  distance filters ("is not None", so 0 is a bound)
DistancePassesTruthy(min_distance, max_distance, activity_distance) ==
    /\ ~(IsSet(min_distance) /\ min_distance[1] # 0
            /\ activity_distance < min_distance[1])
    /\ ~(IsSet(max_distance) /\ max_distance[1] # 0
            /\ activity_distance > max_distance[1])
DistancePasses(min_distance, max_distance, activity_distance) ==
    /\ ~(IsSet(min_distance) /\ activity_distance < min_distance[1])
    /\ ~(IsSet(max_distance) /\ activity_distance > max_distance[1])

\* activities.py:72-107  the loop: skip an activity at the first filter it
\* fails, append the summary of every other one
RECURSIVE SearchLoopPrepending(_, _, _, _, _)
SearchLoopPrepending(activities, query_lower, type_lower, min_distance, max_distance) ==
    IF activities = <<>> THEN <<>>
    ELSE LET activity == Head(activities)
             rest == SearchLoopPrepending(Tail(activities), query_lower,
                                          type_lower, min_distance,
                                          max_distance)
         IN  IF /\ NamePasses(query_lower, OrEmpty(activity.name))
                /\ TypePasses(type_lower, activity.type)
                /\ DistancePasses(min_distance, max_distance,
                                  OrZero(activity.distance))
             THEN rest \o <<ActivitySummary(activity)>>
             ELSE rest
RECURSIVE SearchLoop(_, _, _, _, _)
SearchLoop(activities, query_lower, type_lower, min_distance, max_distance) ==
    IF activities = <<>> THEN <<>>
    ELSE LET activity == Head(activities)
             rest == SearchLoop(Tail(activities), query_lower, type_lower,
                                min_distance, max_distance)
         IN  IF /\ NamePasses(query_lower, OrEmpty(activity.name))
                /\ TypePasses(type_lower, activity.type)
                /\ DistancePasses(min_distance, max_distance,
                                  OrZero(activity.distance))
             THEN <<ActivitySummary(activity)>> \o rest
             ELSE rest

\* activities.py:36-109  search_activities(client, query, activity_type,
\* after, before, min_distance, max_distance, limit); fetched is what
\* client.get_activities returns for the request
SearchActivities(c, fetched) ==
    LET a == ParseBound("after", c.after)
        b == ParseBound("before", c.before)
    IN  IF a.raised \/ b.raised
        THEN [outcome |-> "ValueError", requests |-> <<>>,
              diag |-> <<>>, result |-> <<>>]
        ELSE [outcome |-> "ok",
              requests |-> SearchRequests(b.date, a.date, c.limit),
              diag |-> a.diag \o b.diag,
              result |-> SearchLoop(fetched, LowerOrNone(c.query),
                                    LowerOrNone(c.activity_type),
                                    c.min_distance, c.max_distance)]

\* ------------------------------------- query layer: list, details, laps
\* "float(x) if x else None"
OrNone(o) == IF IsSet(o) /\ o[1] # 0 THEN o ELSE Absent

\* activities.py:10-33  list_activities(client, limit); fetched is what
\* client.get_activities returns
ListActivities(limit, fetched) ==
    [outcome |-> "ok",
     requests |-> << [limit |-> limit] >>,
     result |-> [i \in 1..Len(fetched) |-> ActivitySummary(fetched[i])]]

\* activities.py:116-138  ActivityDetails(...)
ActivityDetails(activity) ==
    [id |-> OrZero(activity.id),
     name |-> OrEmpty(activity.name),
     description |-> activity.description,
     type |-> activity.type,
     distance |-> OrZero(activity.distance),
     moving_time |-> DurationSeconds(activity.moving_time),
     elapsed_time |-> DurationSeconds(activity.elapsed_time),
     total_elevation_gain |-> OrZero(activity.total_elevation_gain),
     average_speed |-> OrZero(activity.average_speed),
     max_speed |-> OrZero(activity.max_speed),
     calories |-> activity.calories,
     device_name |-> activity.device_name]

\* activities.py:112-138  get_activity_details(client, activity_id); response
\* is what client.get_activity does: it returns an activity or raises, and
\* nothing here catches what it raises
GetActivityDetailsWrapped(response) ==
    IF response.kind = "ok"
    THEN [outcome |-> "ok", record |-> Some(ActivityDetails(response.activity))]
    ELSE [outcome |-> "RuntimeError", record |-> Absent]
GetActivityDetails(response) ==
    IF response.kind = "ok"
    THEN [outcome |-> "ok", record |-> Some(ActivityDetails(response.activity))]
    ELSE [outcome |-> response.kind, record |-> Absent]

\* streams.py:14-38  LapSummary(...)
LapSummary(lap) ==
    [id |-> OrZero(lap.id),
     activity_id |-> OrZero(lap.activity_id),
     lap_index |-> lap.lap_index,
     name |-> OrEmpty(lap.name),
     elapsed_time |-> DurationSeconds(lap.elapsed_time),
     moving_time |-> DurationSeconds(lap.moving_time),
     distance |-> OrZero(lap.distance),
     average_speed |-> OrZero(lap.average_speed),
     max_speed |-> OrZero(lap.max_speed),
     average_cadence |-> OrNone(lap.average_cadence),
     average_watts |-> OrNone(lap.average_watts),
     average_heartrate |-> OrNone(lap.average_heartrate),
     max_heartrate |-> OrNone(lap.max_heartrate),
     total_elevation_gain |-> OrZero(lap.total_elevation_gain)]

\* streams.py:8-40  get_activity_laps(client, activity_id)
GetActivityLaps(laps) ==
    [outcome |-> "ok",
     result |-> [i \in 1..Len(laps) |-> LapSummary(laps[i])]]

\* ---------------------------------------------- query layer: streams
\* streams.py:63-73, models.py:110-120  the eleven fields of ActivityStreams
StreamNames ==
    {"time", "latlng", "distance", "altitude", "velocity_smooth", "heartrate",
     "cadence", "watts", "temp", "moving", "grade_smooth"}

\* streams.py:56-60  get_stream_data(key); a stream's data is Absent when
\* the stream object has no data
get_stream_data(streams, key) ==
    IF key \in DOMAIN streams THEN streams[key] ELSE Absent

\* streams.py:62-74  ActivityStreams(time=get_stream_data("time"), ...)
ActivityStreams(streams) ==
    [key \in StreamNames |-> get_stream_data(streams, key)]

\* models.py:122-124  {k: v for k, v in asdict(self).items() if v is not None}
to_dict_keeping_none(bundle) == bundle
to_dict(bundle) ==
    [k \in {f \in DOMAIN bundle : bundle[f] # Absent} |-> bundle[k]]

\* streams.py:43-74 with models.py:122-124  get_activity_streams and the
\* serialization of what it returns
GetActivityStreams(streams) ==
    [outcome |-> "ok", serialized |-> to_dict(ActivityStreams(streams))]

\* ------------------------------------------------- query layer: inputs
MaxFetched == 2
Txt_Mr == <<"M", "r">>
Txt_eR == <<"e", "R">>
Txt_mr == <<"m", "r">>
Txt_Run == <<"R", "u", "n">>
Txt_Ride == <<"R", "i", "d", "e">>
\* raw activities as the API client hands them over
Pool ==
    { [id |-> Some(1), name |-> Some(Txt_Mr), type |-> Txt_Run,
       start_date |-> Some(1), distance |-> Some(5),
       moving_time |-> Some(Duration(1800)),
       total_elevation_gain |-> Some(50)],
      [id |-> Some(2), name |-> Some(Txt_eR), type |-> Txt_Ride,
       start_date |-> Absent, distance |-> Some(10),
       moving_time |-> Absent, total_elevation_gain |-> Absent],
      [id |-> Absent, name |-> Absent, type |-> Txt_Run,
       start_date |-> Absent, distance |-> Absent,
       moving_time |-> Some(Duration(0)), total_elevation_gain |-> Some(0)],
      [id |-> Some(4), name |-> Some(Txt_mr), type |-> Txt_Ride,
       start_date |-> Some(2), distance |-> Some(0),
       moving_time |-> Some(Duration(60)),
       total_elevation_gain |-> Some(7)] }
Lists(S, n) == UNION {[1..k -> S] : k \in 0..n}
Queries == {Absent, Some(<<>>), Some(<<"m", "R">>), Some(<<"e">>)}
TypeFilters == {Absent, Some(<<"r", "u", "n">>), Some(<<"r", "I">>)}
DistanceBounds == {Absent, Some(0), Some(5)}
DateStrings == {Absent, Some(""), Some("2023-01-01"),
                Some("2023-06-01T00:00:00Z"), Some("yesterday")}
SearchLimits == {1, MaxFetched}
Criteria ==
    [query : Queries, activity_type : TypeFilters, after : DateStrings,
     before : DateStrings, min_distance : DistanceBounds,
     max_distance : DistanceBounds, limit : SearchLimits]
\* the API returns at most the requested number of activities
NoOut == [outcome |-> "none"]
SearchCalls ==
    {q \in [op : {"search_activities"}, stage : {"called"}, c : Criteria,
            fetched : Lists(Pool, MaxFetched), out : {NoOut}] :
        Len(q.fetched) <= q.c.limit}

\* durations the API client hands over: unset, zero, half an hour, and a
\* day and five seconds
DurationValues ==
    {Absent, Some(Duration(0)), Some(Duration(1800)),
     Some(Duration(SecondsPerDay + 5))}
RawActivity(moving_time, elapsed_time) ==
    [id |-> Some(1), name |-> Some(Txt_Mr), description |-> Absent,
     type |-> Txt_Run, start_date |-> Some(1), distance |-> Some(5),
     moving_time |-> moving_time, elapsed_time |-> elapsed_time,
     total_elevation_gain |-> Some(50), average_speed |-> Some(3),
     max_speed |-> Absent, calories |-> Absent, device_name |-> Absent]
RawLap(moving_time, elapsed_time) ==
    [id |-> Some(1), activity_id |-> Some(1), lap_index |-> 1,
     name |-> Some(Txt_Mr), elapsed_time |-> elapsed_time,
     moving_time |-> moving_time, distance |-> Some(5),
     average_speed |-> Some(3), max_speed |-> Absent,
     average_cadence |-> Absent, average_watts |-> Some(0),
     average_heartrate |-> Some(150), max_heartrate |-> Absent,
     total_elevation_gain |-> Absent]
ListPool == {RawActivity(m, e) : m, e \in DurationValues}
LapPool == {RawLap(m, e) : m, e \in DurationValues}
ListCalls ==
    {q \in [op : {"list_activities"}, stage : {"called"},
            limit : SearchLimits, fetched : Lists(ListPool, MaxFetched),
            out : {NoOut}] :
        Len(q.fetched) <= q.limit}

\* what client.get_activity does for an id: the activity, or one of the
\* exceptions of the API client (ObjectNotFound for an id the API does not
\* know, the others for rate limiting, other API faults and the transport)
Faults == {"ObjectNotFound", "RateLimitExceeded", "Fault", "ConnectionError"}
GetActivityResponses ==
    {[kind |-> "ok", activity |-> a] : a \in ListPool}
        \cup {[kind |-> k] : k \in Faults}
DetailCalls ==
    [op : {"get_activity_details"}, stage : {"called"},
     response : GetActivityResponses, out : {NoOut}]
LapCalls ==
    [op : {"get_activity_laps"}, stage : {"called"},
     laps : Lists(LapPool, MaxFetched), out : {NoOut}]

\* what client.get_activity_streams returns: a mapping from the stream
\* types the API sent (a type this program does not know included) to
\* streams, each with no data, empty data or samples
MaxStreams == 2
StreamKeys == StreamNames \cup {"power_balance"}
StreamData == {Absent, Some(<<>>), Some(<<1, 2>>)}
StreamResponses ==
    UNION {[S -> StreamData] :
              S \in {K \in SUBSET StreamKeys : Cardinality(K) <= MaxStreams}}
StreamCalls ==
    [op : {"get_activity_streams"}, stage : {"called"},
     streams : StreamResponses, out : {NoOut}]

\* each service function runs on its inputs
Called(op) == qry.op = op /\ qry.stage = "called"
Return_(out) ==
    /\ qry' = [qry EXCEPT !.stage = "returned", !.out = out]
    /\ UNCHANGED <<env, sess, srv, pc, local, last>>
RunSearch ==
    /\ Called("search_activities")
    /\ Return_(SearchActivities(qry.c, qry.fetched))
RunList ==
    /\ Called("list_activities")
    /\ Return_(ListActivities(qry.limit, qry.fetched))
RunDetails ==
    /\ Called("get_activity_details")
    /\ Return_(GetActivityDetails(qry.response))
RunLaps ==
    /\ Called("get_activity_laps")
    /\ Return_(GetActivityLaps(qry.laps))
RunStreams ==
    /\ Called("get_activity_streams")
    /\ Return_(GetActivityStreams(qry.streams))

InitQuery ==
    /\ InitWith({1}, 0, {"s1"})
    /\ \/ qry \in SearchCalls
       \/ qry \in ListCalls
       \/ qry \in DetailCalls
       \/ qry \in LapCalls
       \/ qry \in StreamCalls
NextQuery ==
    \/ RunSearch
    \/ RunList
    \/ RunDetails
    \/ RunLaps
    \/ RunStreams
SpecQuery == InitQuery /\ [][NextQuery]_vars

\* ------------------------------------------------------------------- claims
Valid(t, expires_at) == t < expires_at - REFRESH_BUFFER
Finished(t) == pc[t] = "idle" /\ result[t] # "none"
Refreshing == {"refresh", "exchanging", "set_access", "set_refresh",
               "set_expires"}
\* a triple that is the initial one or comes whole from one response
Whole(s) ==
    \/ s = NoSession
    \/ s[1] # None /\ s[1].id = s[2] /\ s[1].exp = s[3]

\* C1: a call of get_client() made while now < expires_at - 300 attempts no
\* refresh exchange, does not fail, and returns the shared session with
\* access_token, refresh_token and expires_at as they were when it began.
C1_NoRefreshWhileValid ==
    \A t \in callers :
        phase[t] = "lt" =>
            /\ attempts[t] = 0
            /\ pc[t] \in {"idle", "return"}
            /\ result[t] # "error"
            /\ sess = pre[t]
            /\ (result[t] = "ok" => obs[t] = pre[t])

C1_Witness ==
    \E t \in callers :
        /\ phase[t] = "lt"
        /\ Finished(t)
        /\ result[t] = "ok"
        /\ obs[t][1] # None

\* C2 as stated: a finished call made while now >= expires_at - 300, the
\* boundary now = expires_at - 300 included, attempted exactly one exchange,
\* and when it succeeded the returned session holds the access token and the
\* expiry of that exchange's response.
C2_RefreshAtOrPastThreshold ==
    \A t \in callers :
        (Finished(t) /\ phase[t] \in {"eq", "gt"}) =>
            /\ attempts[t] = 1
            /\ (result[t] = "ok" =>
                    /\ obs[t][1] = resp[t].access_token
                    /\ obs[t][3] = resp[t].expires_at)

\* C2 amended: a call made while now > expires_at - 300 attempts exactly one
\* exchange, and when it succeeds the returned session holds the access token
\* and the expiry of that exchange's response; a call made at the boundary
\* now = expires_at - 300 attempts none.
C2_RefreshPastThreshold ==
    \A t \in callers :
        /\ phase[t] = "gt" =>
            /\ attempts[t] <= 1
            /\ (pc[t] \notin {"idle", "refresh"} \/ Finished(t)
                    => attempts[t] = 1)
            /\ (Finished(t) /\ result[t] = "ok" =>
                    /\ obs[t][1] = resp[t].access_token
                    /\ obs[t][3] = resp[t].expires_at
                    /\ resp[t].keys = ResponseKeys)
        /\ phase[t] = "eq" => attempts[t] = 0

C2_Witness ==
    \E t \in callers :
        /\ phase[t] = "gt"
        /\ Finished(t)
        /\ result[t] = "ok"
        /\ attempts[t] = 1
        /\ pre[t][1] # None

\* C3: a call whose refresh exchange failed (the exchange raised, or its
\* response lacked a key) ended in the authentication error and left
\* access_token, refresh_token and expires_at exactly as they were before it.
C3_FailureLeavesSession ==
    \A t \in callers :
        result[t] = "error" =>
            /\ err[t] # NoError
            /\ sess = pre[t]

\* C4: between calls, the stored expires_at is the expiry the server reported
\* together with the access token the session holds.
C4_ExpiryOfHeldToken ==
    (\A t \in callers : pc[t] = "idle") =>
        \/ client_access_token = None /\ token_expires_at = 0
        \/ client_access_token # None
            /\ client_access_token.exp = token_expires_at

\* C5: with several callers, the session a caller is returned is a whole
\* triple (the initial one or all three fields of one response), never the
\* access token of one exchange with the expiry or refresh token of another;
\* stated for the runs in which every response carried all three keys.
C5_NoTornSession ==
    ~partial =>
        \A t \in callers : result[t] = "ok" => Whole(obs[t])

\* C6: check-and-refresh is serialized, so at most one refresh exchange is in
\* flight at any time.
C6_OneExchangeInFlight ==
    Cardinality({t \in callers : pc[t] = "exchanging"}) <= 1

\* C7: the error a failed get_client() raises to its caller is the one fixed
\* generic message, whatever the client secret and whatever the cause of the
\* failure; the cause (which may quote the secret) is only in the log line.
C7_GenericError ==
    \A t \in callers :
        /\ result[t] = "error" =>
            /\ err[t] = <<GenericText, "">>
            /\ logged[t] # NoError
        /\ result[t] # "error" => err[t] = NoError

C7_Witness ==
    \E t \in callers :
        /\ result[t] = "error"
        /\ logged[t] = <<"unauthorized", CLIENT_SECRET>>
        /\ err[t] = <<GenericText, "">>

\* the parts of C8 as step properties of one caller's call
C8_OnlyRefreshWrites ==
    sess' # sess =>
        \E t \in callers :
            pc[t] \in {"set_access", "set_refresh", "set_expires"}
C8_ReturnsAfterExchange(t) ==
    pc[t] = "return" /\ pc'[t] = "idle" /\ attempts[t] = 1
C8_Fails(t) == result[t] # "error" /\ result'[t] = "error"
C8_FailureStaysExpiring ==
    \A t \in callers :
        C8_Fails(t) =>
            /\ ~Valid(now', token_expires_at')
            /\ token_expires_at' = pre[t][3]
            /\ err'[t] # NoError

\* C8 as stated: only the refresh exchange changes the stored session; a
\* successful exchange leaves the session Valid (now < expires_at - 300) when
\* get_client() returns; a failed exchange leaves it Expiring, error surfaced.
C8_SuccessLeavesValid ==
    [][/\ C8_OnlyRefreshWrites
       /\ \A t \in callers :
            C8_ReturnsAfterExchange(t) => Valid(now', token_expires_at')
       /\ C8_FailureStaysExpiring]_vars

\* C8 amended: only the refresh exchange changes the stored session; a
\* successful exchange stores the expiry its response reported, so the session
\* is Valid when get_client() returns if that expiry is more than 300 s past
\* the clock at return and Expiring otherwise; a failed exchange leaves it
\* Expiring with the stored expiry untouched and the error surfaced.
C8_SuccessStoresReportedExpiry ==
    [][/\ C8_OnlyRefreshWrites
       /\ \A t \in callers :
            C8_ReturnsAfterExchange(t) =>
                /\ token_expires_at' = resp[t].expires_at
                /\ (Valid(now', token_expires_at')
                        <=> now' < resp[t].expires_at - REFRESH_BUFFER)
       /\ C8_FailureStaysExpiring]_vars

C8_Witness ==
    \E t \in callers :
        /\ Finished(t)
        /\ result[t] = "ok"
        /\ attempts[t] = 1
        /\ token_expires_at = resp[t].expires_at
        /\ Valid(now, token_expires_at)

\* C9: the core list_activities called with limit <= 0 fails with
\* InvalidArgument and issues no fetch.
C9_NonPositiveLimitRejected ==
    (last.core = "list_activities" /\ last.core_limit <= 0) =>
        /\ last.outcome = "InvalidArgument"
        /\ last.fetched = <<>>

C19_PresentsStoredRefreshToken ==
    \A t \in callers :
        (attempts[t] = 1 /\ pre[t][2] # NoRefresh) => presented[t] = pre[t][2]

\* ------------------------------------------------------ query-layer claims
Searched == qry.op = "search_activities" /\ qry.stage = "returned"
\* the summaries of the activities of a list, one per activity, in its order
Summaries(activities) ==
    [i \in 1..Len(activities) |-> ActivitySummary(activities[i])]
NoTextFilter == qry.c.query = Absent /\ qry.c.activity_type = Absent
NoDistanceFilter == qry.c.min_distance = Absent /\ qry.c.max_distance = Absent

\* C11: search_activities with query, activity_type, min_distance and
\* max_distance all unset returns one normalized summary per fetched
\* activity, in fetch order, none dropped, duplicated or reordered.
C11_UnfilteredReturnsAll ==
    (Searched /\ NoTextFilter /\ NoDistanceFilter)
        => /\ qry.out.outcome = "ok"
           /\ qry.out.result = Summaries(qry.fetched)
C11_Witness ==
    /\ Searched /\ NoTextFilter /\ NoDistanceFilter
    /\ Len(qry.fetched) = 2
    /\ qry.fetched[1] # qry.fetched[2]
    /\ qry.out.result = Summaries(qry.fetched)

\* two characters are the same letter, whatever their case
SameLetter(x, y) ==
    \/ x = y
    \/ {x, y} \in {{"m", "M"}, {"r", "R"}, {"i", "I"}, {"e", "E"}}
ContainsIgnoringCase(sub, s) ==
    \E i \in 0..(Len(s) - Len(sub)) :
        \A j \in 1..Len(sub) : SameLetter(sub[j], s[i + j])
TextMatches(filter, text) ==
    filter = Absent \/ ContainsIgnoringCase(filter[1], text)
NameOf(a) == IF a.name = Absent THEN <<>> ELSE a.name[1]
MatchesText(a) ==
    /\ TextMatches(qry.c.query, NameOf(a))
    /\ TextMatches(qry.c.activity_type, a.type)

\* C12: search_activities returns exactly the order-preserving subsequence of
\* the fetched activities whose name contains query and whose type string
\* contains activity_type, compared case-insensitively; an unset filter is
\* vacuously true and when both are set both must hold.
C12_TextFilters ==
    (Searched /\ NoDistanceFilter)
        => qry.out.result = Summaries(SelectSeq(qry.fetched, MatchesText))
C12_Witness ==
    /\ Searched /\ NoDistanceFilter
    /\ qry.c.query # Absent /\ qry.c.activity_type # Absent
    /\ Len(qry.fetched) = 2 /\ Len(qry.out.result) = 1
    /\ \E i \in 1..2 :
          /\ MatchesText(qry.fetched[i])
          /\ ~Contains(qry.c.query[1], NameOf(qry.fetched[i]))
          /\ TextMatches(qry.c.query, NameOf(qry.fetched[3 - i]))
          /\ ~TextMatches(qry.c.activity_type, qry.fetched[3 - i].type)

DistanceOf(a) == IF a.distance = Absent THEN 0 ELSE a.distance[1]
InRange(a) ==
    /\ qry.c.min_distance = Absent \/ qry.c.min_distance[1] <= DistanceOf(a)
    /\ qry.c.max_distance = Absent \/ DistanceOf(a) <= qry.c.max_distance[1]

\* C13: search_activities keeps an activity exactly when
\* min_distance <= distance <= max_distance, both bounds inclusive and 0 a
\* bound like any other; an unset bound imposes nothing and an absent
\* distance counts as 0.
C13_DistanceFilters ==
    (Searched /\ NoTextFilter)
        => qry.out.result = Summaries(SelectSeq(qry.fetched, InRange))
C13_Witness ==
    /\ Searched /\ NoTextFilter
    /\ qry.c.max_distance = Some(0)
    /\ Len(qry.fetched) = 2
    /\ qry.fetched[1].distance = Absent
    /\ DistanceOf(qry.fetched[2]) > 0
    /\ qry.out.result = <<ActivitySummary(qry.fetched[1])>>

\* a date string that is given (not empty) and is not ISO-8601
Malformed(o) ==
    /\ o # Absent
    /\ o[1] \notin {"", "2023-01-01", "2023-06-01T00:00:00Z"}
InstantOf(o) ==
    IF o = Some("2023-01-01") THEN Some(20230101)
    ELSE IF o = Some("2023-06-01T00:00:00Z") THEN Some(20230601)
    ELSE Absent
MalformedCount ==
    (IF Malformed(qry.c.after) THEN 1 ELSE 0)
        + (IF Malformed(qry.c.before) THEN 1 ELSE 0)

\* C14: a malformed after or before string never aborts search_activities:
\* the fetch is still issued, with no bound on the malformed side, the other
\* side's bound applied when it is well-formed and the limit unchanged, and
\* one diagnostic is emitted per malformed string.
C14_MalformedDateIgnored ==
    Searched
        => /\ qry.out.outcome = "ok"
           /\ Len(qry.out.requests) >= 1
           /\ \A i \in 1..Len(qry.out.requests) :
                 /\ qry.out.requests[i].after = InstantOf(qry.c.after)
                 /\ qry.out.requests[i].before = InstantOf(qry.c.before)
                 /\ qry.out.requests[i].limit = qry.c.limit
           /\ Len(qry.out.diag) = MalformedCount
           /\ Malformed(qry.c.after)
                 => \E i \in 1..Len(qry.out.diag) :
                       qry.out.diag[i] = <<"Warning", "after", qry.c.after[1]>>
           /\ Malformed(qry.c.before)
                 => \E i \in 1..Len(qry.out.diag) :
                       qry.out.diag[i] = <<"Warning", "before", qry.c.before[1]>>
C14_Witness ==
    /\ Searched
    /\ Malformed(qry.c.after)
    /\ qry.c.before = Some("2023-06-01T00:00:00Z")
    /\ qry.out.outcome = "ok"
    /\ qry.out.requests[1].after = Absent
    /\ qry.out.requests[1].before = Some(20230601)
    /\ Len(qry.out.diag) = 1
    /\ Len(qry.out.result) > 0

\* C15: every search_activities call issues exactly one fetch request,
\* bounded by criteria.limit, whatever the filters eliminate; the results
\* are at most the fetched candidates and may be fewer than limit.
C15_OneBoundedFetch ==
    Searched
        => /\ Len(qry.out.requests) = 1
           /\ qry.out.requests[1].limit = qry.c.limit
           /\ Len(qry.out.result) <= Len(qry.fetched)
C15_Witness ==
    /\ Searched
    /\ Len(qry.out.requests) = 1
    /\ Len(qry.fetched) = qry.c.limit
    /\ Len(qry.out.result) < qry.c.limit

Returned(op) == qry.op = op /\ qry.stage = "returned"
\* the stream names the response provides data for
Provided(streams) ==
    {k \in StreamNames : k \in DOMAIN streams /\ streams[k] # Absent}

\* C16: the serialized stream bundle has a key exactly for each of the
\* eleven known stream names the response provides data for, mapped to that
\* stream's samples; every other key is omitted, no key maps to null, and an
\* empty response serializes to the empty mapping.
C16_StreamsSerialization ==
    Returned("get_activity_streams")
        => /\ qry.out.outcome = "ok"
           /\ DOMAIN qry.out.serialized = Provided(qry.streams)
           /\ \A k \in DOMAIN qry.out.serialized :
                 /\ qry.out.serialized[k] # Absent
                 /\ qry.out.serialized[k] = qry.streams[k]
           /\ (DOMAIN qry.streams = {}) => (DOMAIN qry.out.serialized = {})
C16_Witness ==
    /\ Returned("get_activity_streams")
    /\ DOMAIN qry.streams = {"time", "heartrate"}
    /\ qry.streams["time"] = Some(<<1, 2>>)
    /\ qry.streams["heartrate"] = Absent
    /\ DOMAIN qry.out.serialized = {"time"}
    /\ qry.out.serialized["time"] = Some(<<1, 2>>)

\* C17: an activity whose moving and elapsed durations are absent or null
\* is normalized to moving time 0 and elapsed time 0, without an error, by
\* list_activities, search_activities and get_activity_details.
C17_AbsentDurationIsZero ==
    /\ Returned("list_activities")
          => /\ qry.out.outcome = "ok"
             /\ Len(qry.out.result) = Len(qry.fetched)
             /\ \A i \in 1..Len(qry.fetched) :
                   qry.fetched[i].moving_time = Absent
                       => qry.out.result[i].moving_time = 0
    /\ (Searched /\ \A i \in 1..Len(qry.fetched) :
                        qry.fetched[i].moving_time = Absent)
          => /\ qry.out.outcome = "ok"
             /\ \A i \in 1..Len(qry.out.result) :
                   qry.out.result[i].moving_time = 0
    /\ (Returned("get_activity_details") /\ qry.response.kind = "ok")
          => /\ qry.out.outcome = "ok"
             /\ qry.out.record # Absent
             /\ qry.response.activity.moving_time = Absent
                   => qry.out.record[1].moving_time = 0
             /\ qry.response.activity.elapsed_time = Absent
                   => qry.out.record[1].elapsed_time = 0
C17_Witness ==
    /\ Returned("get_activity_details")
    /\ qry.response.kind = "ok"
    /\ qry.response.activity.moving_time = Absent
    /\ qry.response.activity.elapsed_time = Absent
    /\ qry.out.outcome = "ok"
    /\ qry.out.record[1].moving_time = 0
    /\ qry.out.record[1].elapsed_time = 0

\* C18: get_activity_details for an id the API reports as nonexistent fails
\* with the not-found condition and returns no record; any other failure of
\* the API or the transport gives a different condition.
C18_NotFoundSurfaced ==
    (Returned("get_activity_details") /\ qry.response.kind # "ok")
        => /\ qry.out.record = Absent
           /\ qry.out.outcome # "ok"
           /\ (qry.out.outcome = "ObjectNotFound")
                 <=> (qry.response.kind = "ObjectNotFound")
C18_Witness ==
    /\ Returned("get_activity_details")
    /\ qry.response.kind = "ObjectNotFound"
    /\ qry.out.outcome = "ObjectNotFound"
    /\ qry.out.record = Absent

\* the length of a duration in seconds, 0 for an unset one
LengthOf(o) == IF o = Absent THEN 0 ELSE o[1].days * SecondsPerDay + o[1].seconds

\* C20: for every duration, durations of a day or longer included, the
\* normalized moving_time and elapsed_time of activities and laps equal the
\* duration's total length in seconds.
C20_DurationTotalSeconds ==
    /\ Returned("list_activities")
          => \A i \in 1..Len(qry.fetched) :
                qry.out.result[i].moving_time
                    = LengthOf(qry.fetched[i].moving_time)
    /\ (Returned("get_activity_details") /\ qry.response.kind = "ok")
          => /\ qry.out.record[1].moving_time
                    = LengthOf(qry.response.activity.moving_time)
             /\ qry.out.record[1].elapsed_time
                    = LengthOf(qry.response.activity.elapsed_time)
    /\ Returned("get_activity_laps")
          => \A i \in 1..Len(qry.laps) :
                /\ qry.out.result[i].moving_time
                      = LengthOf(qry.laps[i].moving_time)
                /\ qry.out.result[i].elapsed_time
                      = LengthOf(qry.laps[i].elapsed_time)

\* C21: get_client() never returns an unauthenticated session.  The session
\* starts with expires_at = 0 and no access token, so a call that finds it
\* so attempts a refresh exchange; and every call that returns normally
\* returns a session holding an access token, one that came from an exchange
\* that succeeded (a complete response, stored in full).
C21_ReturnsAuthenticated ==
    \A t \in callers :
        /\ (phase[t] # "none" /\ pre[t][1] = None)
              => (pc[t] \in Refreshing \/ attempts[t] = 1)
        /\ result[t] = "ok"
              => /\ obs[t][1] # None
                 /\ obs[t][1].whole
C21_Witness ==
    \E t \in callers :
        /\ result[t] = "ok"
        /\ attempts[t] = 0
        /\ obs[t][1] # None
        /\ obs[t][1].whole
        /\ partial

====
